---- MODULE Spec2Model ----
(***************************************************************************)
(* pide: the shared selection file ~/.pi/ide-selection.json, the pi        *)
(* extension that reads it (src/index.ts) and the VS Code extension that   *)
(* writes it (src/vscode-plugin/src/extension.ts), with the other writers  *)
(* of the repository: the JetBrains plugin, the Neovim plugin, the HTTP    *)
(* endpoint of the older extension and src/test-selection.sh.              *)
(*                                                                         *)
(* Strings that the programs build or take apart are sequences of tokens,  *)
(* so that JSON.stringify, JSON.parse and the reference formatting are     *)
(* computed, not assumed.  Times are milliseconds.                         *)
(***************************************************************************)
EXTENDS Integers, Sequences, FiniteSets, TLC

VARIABLES
  now,              \* Date.now()
  dirExists,        \* ~/.pi exists
  file,             \* ~/.pi/ide-selection.json: [exists, content]
  fsFails,          \* mkdir, read, write and unlink fail (permissions, disk)
  fd,               \* per writer: the data of a writeFileSync between its
                    \* open (which truncates) and its write, <<>> if none
  \* ---- reader (src/index.ts), one pi process per element of Readers
  currentSelection, \* index.ts:37   <<>> (null) or <<object>>
  lastCtx,          \* index.ts:38   0 (null) or a context
  fileWatcher,      \* index.ts:39   TRUE when it refers to a watcher
  pollInterval,     \* index.ts:40   TRUE when it refers to an interval
  lastFileContent,  \* index.ts:41   [exists, content], exists = FALSE for null
  activeWatchers,   \* fs.watch watchers created and not closed
  activePolls,      \* setInterval timers created and not cleared
  status,           \* ctx.ui.setStatus("ide-selection", ...) per context
  editorText,       \* last text given to setEditorText / pasteToEditor
  notice,           \* the ctx.ui.notify message of the last handler, "" if none
  thrown,           \* the last handler let an exception escape to the host
  \* ---- VS Code writer (extension.ts)
  vscode,           \* "inactive", "active", "deactivated"
  autoSend,         \* pide.autoSend
  editor,           \* vscode.window.activeTextEditor: <<>> or <<[file, sel]>>
  debounceTimer,    \* extension.ts:8   0 (undefined) or a timer id
  timers,           \* armed setTimeout timers: set of [id, due]
  \* ---- Neovim plugin (pide.lua) and JetBrains plugin (PiSelectionService)
  nvim,             \* [state, config, autocmds, debounce_timer, deferred]
  jb,               \* [state, debounceTimer]
  \* ---- history (not program state)
  session,          \* what the host has sent a reader: "none", "started", "shutdown"
  op,               \* the handler that ran last: [name, who]
  hist              \* what the properties need to remember

vars == <<now, dirExists, file, fsFails, fd, currentSelection, lastCtx, fileWatcher,
          pollInterval, lastFileContent, activeWatchers, activePolls, status,
          editorText, notice, thrown, vscode, autoSend, editor, debounceTimer,
          timers, nvim, jb, session, op, hist>>

readerVars == <<currentSelection, lastCtx, fileWatcher, pollInterval,
                lastFileContent, activeWatchers, activePolls, status,
                editorText, notice, thrown>>

writerVars == <<vscode, autoSend, editor, debounceTimer, timers>>

fsVars == <<fsFails, fd>>

chanVars == <<nvim, jb>>

-----------------------------------------------------------------------------
(* Bounds of the model *)

MaxHours == 2
MaxWindows == 2
MaxTimers == 2
MaxSkew == 1
MaxText == 2

(* Program constants *)

StalenessMs == 3600000
DebounceMs == 100

(* Clock: it starts two hours after the epoch and advances in steps *)

StartTime == 2 * StalenessMs
MinuteMs == 60 * 1000
HalfWindowMs == DebounceMs \div 2

Readers == {"pi1"}
Writers == {"w1", "w2"}
Ctxs == {1, 2}
UICtxs == {1, 2}
HasUI(ctx) == ctx \in UICtxs
NoNotice == [r \in Readers |-> ""]

-----------------------------------------------------------------------------
(* JavaScript values and JSON text *)

JNum(n) == [t |-> "num", n |-> n, s |-> ""]
JStr(s) == [t |-> "str", n |-> 0, s |-> s]
JNull == [t |-> "null", n |-> 0, s |-> ""]
Tok(t, s) == [t |-> t, n |-> 0, s |-> s]
LBrace == Tok("{", "")
RBrace == Tok("}", "")
Key(k) == Tok("key", k)
Junk(s) == Tok("junk", s)

IsValueTok(x) == x.t \in {"num", "str", "null"}

\* `undefined`, null, 0 and "" are falsy
Truthy(obj, k) ==
  /\ k \in DOMAIN obj
  /\ \/ obj[k].t = "num" /\ obj[k].n # 0
     \/ obj[k].t = "str" /\ obj[k].s # ""

\* x !== undefined
Defined(obj, k) == k \in DOMAIN obj

\* Number(x) for the operands of - : null is 0
ToNumber(v) == IF v.t = "num" THEN v.n ELSE 0

RECURSIVE Members(_, _)
Members(obj, keys) ==
  IF keys = <<>> THEN <<>>
  ELSE IF Head(keys) \in DOMAIN obj
       THEN <<Key(Head(keys)), obj[Head(keys)]>> \o Members(obj, Tail(keys))
       ELSE Members(obj, Tail(keys))

\* JSON.stringify(obj, null, 2) of an object whose keys were set in the order
\* `keys`: one member per defined key, in that order, between braces
Stringify(obj, keys) == <<LBrace>> \o Members(obj, keys) \o <<RBrace>>

\* the text parses as a JSON object
WellFormed(c) ==
  /\ Len(c) >= 2
  /\ c[1] = LBrace
  /\ c[Len(c)] = RBrace
  /\ (Len(c) - 2) % 2 = 0
  /\ \A i \in 2..(Len(c) - 1) :
       IF i % 2 = 0 THEN c[i].t = "key" ELSE IsValueTok(c[i])

\* JSON.parse of a well-formed text: the last member with a name wins
ParseObject(c) ==
  LET idx == {i \in 2..(Len(c) - 1) : i % 2 = 0}
      names == {c[i].s : i \in idx}
      last(k) == CHOOSE i \in idx : c[i].s = k /\ \A j \in idx : c[j].s = k => j <= i
  IN [k \in names |-> c[last(k) + 1]]

-----------------------------------------------------------------------------
(* The file system *)

Absent == [exists |-> FALSE, content |-> <<>>]
Present(c) == [exists |-> TRUE, content |-> c]

-----------------------------------------------------------------------------
(* Reader: src/index.ts *)

\* path.basename, for the paths of the model
Basename(p) ==
  CASE p = "/a/b.ts" -> "b.ts"
    [] p = "/p/x.py" -> "x.py"
    [] OTHER -> p

\* the paths of the model are shorter than maxLen
getShortPath(p) == p

\* selection.split("\n").length, for the texts of the model
SplitLines(s) == IF s = "a\nb" THEN 2 ELSE 1

getLineCount(sel) ==
  IF Defined(sel, "startLine") /\ Defined(sel, "endLine")
  THEN ToNumber(sel["endLine"]) - ToNumber(sel["startLine"]) + 1
  ELSE IF Truthy(sel, "selection")
       THEN SplitLines(sel["selection"].s)
       ELSE 0

\* path.basename throws a TypeError unless it is given a string
FileIsString(sel) == Defined(sel, "file") /\ sel["file"].t = "str"

StatusText(sel) ==
  LET ide == IF Truthy(sel, "ide") /\ sel["ide"].t = "str" THEN sel["ide"].s ELSE "IDE"
  IN IF Truthy(sel, "selection")
     THEN [kind |-> "selection", lines |-> getLineCount(sel),
           file |-> Basename(sel["file"].s), ide |-> ide]
     ELSE [kind |-> "file", lines |-> 0,
           file |-> getShortPath(sel["file"].s), ide |-> ide]

\* updateStatus(ctx) with currentSelection = cur, on the statuses st of one
\* reader: the statuses afterwards and whether it threw
updateStatus(st, ctx, cur) ==
  IF ~HasUI(ctx) THEN [status |-> st, throws |-> FALSE]
  ELSE IF cur = <<>> THEN [status |-> [st EXCEPT ![ctx] = <<>>], throws |-> FALSE]
  ELSE IF ~FileIsString(cur[1]) THEN [status |-> st, throws |-> TRUE]
  ELSE [status |-> [st EXCEPT ![ctx] = <<StatusText(cur[1])>>], throws |-> FALSE]

IsStale_Never(obj, t) == FALSE

\* data.timestamp && Date.now() - data.timestamp > 3600000
IsStale(obj, t) ==
  /\ Truthy(obj, "timestamp")
  /\ obj["timestamp"].t = "num"
  /\ t - obj["timestamp"].n > StalenessMs

\* readSelectionFile() at time t with the file f: <<>> for null
readSelectionFile(f, t) ==
  IF f.exists /\ WellFormed(f.content)
  THEN LET data == ParseObject(f.content)
       IN IF IsStale(data, t) THEN <<>> ELSE <<data>>
  ELSE <<>>

ContentChanged_Always(newContent, last) == TRUE

\* newContent !== lastFileContent
ContentChanged(newContent, last) == newContent # last

\* checkForFileChanges() of reader r whose lastCtx is ctx (0 for null): the
\* reader's values afterwards.  An exception of updateStatus is caught after
\* lastFileContent and currentSelection were assigned; one of readFileSync is
\* caught before anything was assigned.
checkForFileChanges(r, ctx) ==
  IF ~(fsFails /\ file.exists) /\ ContentChanged(file, lastFileContent[r])
  THEN LET cur == readSelectionFile(file, now)
       IN [last |-> file, cur |-> cur, changed |-> TRUE,
           status |-> IF ctx # 0 THEN updateStatus(status[r], ctx, cur).status
                      ELSE status[r]]
  ELSE [last |-> lastFileContent[r], cur |-> currentSelection[r],
        changed |-> FALSE, status |-> status[r]]

\* `${x}` in a template literal
Show(obj, k) ==
  IF k \notin DOMAIN obj THEN "undefined"
  ELSE CASE obj[k].t = "num" -> ToString(obj[k].n)
         [] obj[k].t = "str" -> obj[k].s
         [] OTHER -> "null"

LineSuffix_AlwaysRange(sel) ==
  IF Defined(sel, "startLine") /\ Defined(sel, "endLine")
  THEN <<":", Show(sel, "startLine"), "-", Show(sel, "endLine")>>
  ELSE <<>>

\* the suffix appended to fileRef
LineSuffix(sel) ==
  IF Defined(sel, "startLine") /\ Defined(sel, "endLine")
  THEN IF sel["startLine"] = sel["endLine"]
       THEN <<":", Show(sel, "startLine")>>
       ELSE <<":", Show(sel, "startLine"), "-", Show(sel, "endLine")>>
  ELSE <<>>

formatSelectionForContext(sel) ==
  <<"Referencing ">> \o <<Show(sel, "file")>> \o LineSuffix(sel)

-----------------------------------------------------------------------------
(* VS Code writer: src/vscode-plugin/src/extension.ts *)

\* an editor with a file open: the selection's lines are 0-based and
\* selection.start is never after selection.end
Ed(f, empty, text, start, end) ==
  [file |-> f, empty |-> empty, text |-> text, start |-> start, end |-> end]

EditorStates ==
  { Ed("/a/b.ts", TRUE, "", 9, 9),
    Ed("/a/b.ts", FALSE, "x", 9, 14),
    Ed("/p/x.py", FALSE, "print(1)", 2, 2) }

MaybeEditors == {<<>>} \cup {<<ed>> : ed \in EditorStates}

VSCodeKeys == <<"file", "ide", "timestamp", "selection", "startLine", "endLine">>

\* the object doSend builds from the active editor at time t
SelectionData(ed, t) ==
  LET base == [file |-> JStr(ed.file), ide |-> JStr("vscode"), timestamp |-> JNum(t)]
  IN IF ~ed.empty
     THEN [file |-> base.file, ide |-> base.ide, timestamp |-> base.timestamp,
           selection |-> JStr(ed.text),
           startLine |-> JNum(ed.start + 1),
           endLine |-> JNum(ed.end + 1)]
     ELSE base

VSCodeContent(ed, t) == Stringify(SelectionData(ed, t), VSCodeKeys)

clearSelection_WritesEmptyObject ==
  /\ file' = IF dirExists THEN Present(<<LBrace, RBrace>>) ELSE file
  /\ UNCHANGED dirExists

\* clearSelection(): unlink the file if it exists; a failure is caught
clearSelection ==
  /\ file' = IF fsFails THEN file ELSE Absent
  /\ UNCHANGED dirExists

doSend_ClearsOnFailure(e) ==
  IF e = <<>>
  THEN /\ file' = IF fsFails THEN file ELSE Absent
       /\ UNCHANGED dirExists
  ELSE IF fsFails
       THEN /\ file' = Absent
            /\ UNCHANGED dirExists
       ELSE /\ dirExists' = TRUE
            /\ file' = Present(VSCodeContent(e[1], now))

doSend_KeepsFile(e) ==
  IF e = <<>>
  THEN UNCHANGED <<dirExists, file>>
  ELSE /\ dirExists' = TRUE
       /\ file' = Present(VSCodeContent(e[1], now))

\* doSend() when vscode.window.activeTextEditor is e: delete without an
\* editor, else ensureDir() and write; a failure of either is caught
doSend(e) ==
  IF e = <<>>
  THEN clearSelection
  ELSE IF fsFails
       THEN UNCHANGED <<dirExists, file>>
       ELSE /\ dirExists' = TRUE
            /\ file' = Present(VSCodeContent(e[1], now))

ClearTimeout_Noop(ts, h) == ts

\* clearTimeout(h) on the armed timers ts; no timer has the id 0
ClearTimeout(ts, h) == {t \in ts : t.id # h}

\* the handle setTimeout returns: an id no armed timer has
NewTimerId(ts) ==
  CHOOSE i \in 1..(MaxTimers + 1) :
    /\ \A t \in ts : t.id # i
    /\ \A j \in 1..(MaxTimers + 1) : (\A t \in ts : t.id # j) => i <= j

sendSelection_ImmediateKeepsTimer(immediate) ==
  IF immediate
  THEN /\ UNCHANGED <<timers, debounceTimer>>
       /\ doSend(editor)
  ELSE LET cleared == IF debounceTimer # 0 THEN ClearTimeout(timers, debounceTimer)
                      ELSE timers
       IN /\ Cardinality(cleared) < MaxTimers
          /\ debounceTimer' = NewTimerId(cleared)
          /\ timers' = cleared \cup {[id |-> NewTimerId(cleared), due |-> now + DebounceMs]}
          /\ UNCHANGED <<dirExists, file>>

\* sendSelection(immediate)
sendSelection(immediate) ==
  LET cleared == IF debounceTimer # 0 THEN ClearTimeout(timers, debounceTimer)
                 ELSE timers
  IN IF immediate
     THEN /\ timers' = cleared
          /\ UNCHANGED debounceTimer
          /\ doSend(editor)
     ELSE /\ Cardinality(cleared) < MaxTimers
          /\ debounceTimer' = NewTimerId(cleared)
          /\ timers' = cleared \cup {[id |-> NewTimerId(cleared), due |-> now + DebounceMs]}
          /\ UNCHANGED <<dirExists, file>>

-----------------------------------------------------------------------------
(* Neovim and JetBrains: the state of the plugins before they are loaded *)

\* the Neovim plugin's default config, no autocmd, no timer
NvimInit ==
  [state |-> "none",
   config |-> [auto_send |-> TRUE, clear_on_exit |-> TRUE],
   autocmds |-> {},
   debounce_timer |-> FALSE,
   deferred |-> FALSE]

\* PiSelectionService is not constructed, no task is scheduled
JbInit == [state |-> "none", debounceTimer |-> <<>>]

-----------------------------------------------------------------------------
(* History: what the handlers did, for the properties to refer to *)

Min(a, b) == IF a < b THEN a ELSE b

\* flag: for a clear, the file existed; for session_start, it is the first;
\* for session_shutdown, no watcher and no interval was held; for
\* pide.sendSelection and deactivate, a timer was armed; for a write, the file
\* already held the same bytes
Op(name, who, flag) == [name |-> name, who |-> who, flag |-> flag]

\* a step that may have changed the file: a different content starts a new
\* count of the readers' updates; obj is the object a write serialised
FileHist(h, wrote, obj) ==
  LET h1 == IF file' # file
            THEN [h EXCEPT !.updates = [r \in Readers |-> 0]]
            ELSE h
  IN IF (wrote /\ ~fsFails) \/ file' # file
     THEN [h1 EXCEPT !.written = obj]
     ELSE h1

\* a refresh of reader r that did or did not find the content changed
RefreshHist(h, r, changed) ==
  IF changed THEN [h EXCEPT !.updates[r] = Min(@ + 1, 2)] ELSE h

\* a debounced sendSelection(): it joins the burst of the armed timer, or
\* starts a burst
CallHist(h) ==
  IF timers # {}
  THEN [h EXCEPT !.calls = Min(@ + 1, 3),
                 !.inWindow = @ /\ (\A tm \in timers : now < tm.due),
                 !.lastState = editor']
  ELSE [h EXCEPT !.calls = 1, !.commits = 0, !.inWindow = TRUE,
                 !.lastState = editor']

\* a timer of the burst ran doSend
FireHist(h) ==
  [h EXCEPT !.commits = Min(@ + 1, 2), !.committed = file', !.firedAt = now]

\* the burst was cancelled by an immediate send or by deactivate
CancelHist(h) == [h EXCEPT !.calls = 0, !.commits = 0]

InitHist ==
  [updates |-> [r \in Readers |-> 0], written |-> <<>>,
   calls |-> 0, commits |-> 0, inWindow |-> TRUE, lastState |-> <<>>,
   committed |-> Absent, firedAt |-> 0]

-----------------------------------------------------------------------------
(* Initial state: nothing has run; ~/.pi may or may not exist *)

InitCommon ==
  /\ now = StartTime
  /\ dirExists \in BOOLEAN
  /\ file = Absent
  /\ fsFails = FALSE
  /\ fd = [w \in Writers |-> <<>>]
  /\ currentSelection = [r \in Readers |-> <<>>]
  /\ lastCtx = [r \in Readers |-> 0]
  /\ fileWatcher = [r \in Readers |-> FALSE]
  /\ pollInterval = [r \in Readers |-> FALSE]
  /\ lastFileContent = [r \in Readers |-> Absent]
  /\ activeWatchers = [r \in Readers |-> 0]
  /\ activePolls = [r \in Readers |-> 0]
  /\ status = [r \in Readers |-> [c \in Ctxs |-> <<>>]]
  /\ editorText = [r \in Readers |-> <<>>]
  /\ notice = NoNotice
  /\ thrown = FALSE
  /\ vscode = "inactive"
  /\ debounceTimer = 0
  /\ timers = {}
  /\ nvim = NvimInit
  /\ jb = JbInit
  /\ session = [r \in Readers |-> "none"]
  /\ op = Op("init", "", FALSE)
  /\ hist = InitHist

\* the readers' view: the extension of this window is never activated
Init ==
  /\ InitCommon
  /\ autoSend = TRUE
  /\ editor = <<>>

\* the writers' view: any setting of pide.autoSend, any editor at activation
InitWriters ==
  /\ InitCommon
  /\ autoSend \in BOOLEAN
  /\ editor \in MaybeEditors

-----------------------------------------------------------------------------
(* The clock *)

\* the clock advances by d and stays below the horizon; the readers' clock
\* moves by a minute only from a whole hour
Tick(d, horizon) ==
  /\ now + d <= horizon
  /\ d = MinuteMs => (now - StartTime) % StalenessMs = 0
  /\ now' = now + d
  /\ op' = Op("Tick", "clock", FALSE)
  /\ thrown' = FALSE
  /\ UNCHANGED <<dirExists, file, currentSelection, lastCtx, fileWatcher,
                 pollInterval, lastFileContent, activeWatchers, activePolls,
                 status, editorText, writerVars, fsVars, chanVars, session,
                 hist>>
  /\ notice' = NoNotice

-----------------------------------------------------------------------------
(* VS Code: events and commands *)

readerUnchanged ==
  /\ notice' = NoNotice
  /\ UNCHANGED <<fsVars, chanVars>>
  /\ UNCHANGED <<currentSelection, lastCtx, fileWatcher, pollInterval,
                 lastFileContent, activeWatchers, activePolls, status,
                 editorText, session>>

\* the object of the file that doSend has just written, <<>> after a delete
WrittenBy(ed, t) == IF ed = <<>> THEN <<>> ELSE <<SelectionData(ed[1], t)>>

\* activate(): with autoSend the listeners are registered and the current
\* selection is sent at once
Activate ==
  /\ vscode = "inactive"
  /\ vscode' = "active"
  /\ IF autoSend
     THEN /\ sendSelection(TRUE)
          /\ hist' = FileHist(hist, editor # <<>>, WrittenBy(editor, now))
     ELSE UNCHANGED <<dirExists, file, debounceTimer, timers, hist>>
  /\ op' = Op("Activate", "vscode", FALSE)
  /\ thrown' = FALSE
  /\ UNCHANGED <<now, autoSend, editor>>
  /\ readerUnchanged

onEditorEvent_IgnoresAutoSend ==
  /\ sendSelection(FALSE)
  /\ hist' = CallHist(hist)

\* what an editor event does: the listeners exist only with autoSend
onEditorEvent ==
  IF autoSend
  THEN /\ sendSelection(FALSE)
       /\ hist' = CallHist(hist)
  ELSE UNCHANGED <<dirExists, file, debounceTimer, timers, hist>>

\* onDidChangeTextEditorSelection: the selection of the active editor changes
SelectionChanged(ed) ==
  /\ vscode = "active"
  /\ editor # <<>>
  /\ ed.file = editor[1].file
  /\ ed # editor[1]
  /\ editor' = <<ed>>
  /\ onEditorEvent
  /\ op' = Op("SelectionChanged", "vscode", FALSE)
  /\ thrown' = FALSE
  /\ UNCHANGED <<now, vscode, autoSend>>
  /\ readerUnchanged

\* onDidChangeActiveTextEditor: another editor, or none, becomes active
ActiveEditorChanged(e) ==
  /\ vscode = "active"
  /\ e # editor
  /\ e # <<>> /\ editor # <<>> => e[1].file # editor[1].file
  /\ editor' = e
  /\ onEditorEvent
  /\ op' = Op("ActiveEditorChanged", "vscode", FALSE)
  /\ thrown' = FALSE
  /\ UNCHANGED <<now, vscode, autoSend>>
  /\ readerUnchanged

\* a timer set by sendSelection() runs doSend once it is due
TimerFire(tm) ==
  /\ tm \in timers
  /\ tm.due <= now
  /\ timers' = timers \ {tm}
  /\ doSend(editor)
  /\ hist' = FireHist(FileHist(hist, editor # <<>>, WrittenBy(editor, now)))
  /\ op' = Op("TimerFire", "vscode", file.exists)
  /\ thrown' = FALSE
  /\ UNCHANGED <<now, vscode, autoSend, editor, debounceTimer>>
  /\ readerUnchanged

\* command pide.sendSelection
CmdSendSelection ==
  /\ vscode = "active"
  /\ sendSelection(TRUE)
  /\ hist' = CancelHist(FileHist(hist, editor # <<>>, WrittenBy(editor, now)))
  /\ op' = Op("CmdSendSelection", "vscode", timers # {})
  /\ thrown' = FALSE
  /\ UNCHANGED <<now, vscode, autoSend, editor>>
  /\ readerUnchanged

\* command pide.clearSelection
CmdClearSelection ==
  /\ vscode = "active"
  /\ clearSelection
  /\ hist' = FileHist(hist, FALSE, <<>>)
  /\ op' = Op("CmdClearSelection", "vscode", file.exists)
  /\ thrown' = FALSE
  /\ UNCHANGED <<now, vscode, autoSend, editor, debounceTimer, timers>>
  /\ readerUnchanged

Deactivate_KeepsTimer ==
  /\ vscode = "active"
  /\ vscode' = "deactivated"
  /\ timers' = timers
  /\ hist' = CancelHist(hist)
  /\ op' = Op("Deactivate", "vscode", timers # {})
  /\ thrown' = FALSE
  /\ UNCHANGED <<now, dirExists, file, autoSend, editor, debounceTimer>>
  /\ readerUnchanged

\* deactivate(): the pending timer is cleared, the file is left alone
Deactivate ==
  /\ vscode = "active"
  /\ vscode' = "deactivated"
  /\ timers' = IF debounceTimer # 0 THEN ClearTimeout(timers, debounceTimer) ELSE timers
  /\ hist' = CancelHist(hist)
  /\ op' = Op("Deactivate", "vscode", timers # {})
  /\ thrown' = FALSE
  /\ UNCHANGED <<now, dirExists, file, autoSend, editor, debounceTimer>>
  /\ readerUnchanged

-----------------------------------------------------------------------------
(* Reader: handlers of src/index.ts *)

writerUnchanged == UNCHANGED <<writerVars, fsVars, chanVars>>

initialCheck_Skipped(r, ctx) ==
  [last |-> lastFileContent[r], cur |-> currentSelection[r],
   changed |-> FALSE, status |-> status[r]]

\* the refresh session_start makes after startFileWatcher()
initialCheck(r, ctx) == checkForFileChanges(r, ctx)

\* the reader's variables after a checkForFileChanges() with result c
applyCheck(r, c) ==
  /\ lastFileContent' = [lastFileContent EXCEPT ![r] = c.last]
  /\ currentSelection' = [currentSelection EXCEPT ![r] = c.cur]

startFileWatcher_PollInsideTry(r) ==
  /\ dirExists' = TRUE
  /\ IF file.exists
     THEN /\ fileWatcher' = [fileWatcher EXCEPT ![r] = TRUE]
          /\ activeWatchers' = [activeWatchers EXCEPT ![r] = @ + 1]
          /\ pollInterval' = [pollInterval EXCEPT ![r] = TRUE]
          /\ activePolls' = [activePolls EXCEPT ![r] = @ + 1]
     ELSE UNCHANGED <<fileWatcher, activeWatchers, pollInterval, activePolls>>

\* startFileWatcher() once ~/.pi exists: fs.watch throws when the file does
\* not exist, which is caught; the interval is set in either case
startFileWatcher(r) ==
  /\ dirExists' = TRUE
  /\ IF file.exists
     THEN /\ fileWatcher' = [fileWatcher EXCEPT ![r] = TRUE]
          /\ activeWatchers' = [activeWatchers EXCEPT ![r] = @ + 1]
     ELSE UNCHANGED <<fileWatcher, activeWatchers>>
  /\ pollInterval' = [pollInterval EXCEPT ![r] = TRUE]
  /\ activePolls' = [activePolls EXCEPT ![r] = @ + 1]

\* session_start: startFileWatcher(), checkForFileChanges(), updateStatus(ctx).
\* mkdirSync is not in a try block: when it fails the handler ends there.
SessionStart(r, ctx) ==
  /\ activePolls[r] < MaxTimers
  /\ activeWatchers[r] < MaxTimers
  /\ lastCtx' = [lastCtx EXCEPT ![r] = ctx]
  /\ IF fsFails /\ ~dirExists
     THEN /\ thrown' = TRUE
          /\ UNCHANGED <<dirExists, fileWatcher, activeWatchers, pollInterval,
                         activePolls, lastFileContent, currentSelection,
                         status, hist>>
     ELSE /\ startFileWatcher(r)
          /\ LET c == initialCheck(r, ctx)
                 u == updateStatus(c.status, ctx, c.cur)
             IN /\ applyCheck(r, c)
                /\ status' = [status EXCEPT ![r] = u.status]
                /\ thrown' = u.throws
                /\ hist' = RefreshHist(hist, r, c.changed)
  /\ session' = [session EXCEPT ![r] = "started"]
  /\ op' = Op("SessionStart", r, session[r] = "none")
  /\ notice' = NoNotice
  /\ UNCHANGED <<now, file, editorText>>
  /\ writerUnchanged

\* session_switch
SessionSwitch(r, ctx) ==
  /\ session[r] = "started"
  /\ lastCtx' = [lastCtx EXCEPT ![r] = ctx]
  /\ LET c == checkForFileChanges(r, ctx)
     IN /\ applyCheck(r, c)
        /\ status' = [status EXCEPT ![r] = c.status]
        /\ hist' = RefreshHist(hist, r, c.changed)
  /\ thrown' = FALSE
  /\ op' = Op("SessionSwitch", r, FALSE)
  /\ UNCHANGED <<now, dirExists, file, fileWatcher, pollInterval,
                 activeWatchers, activePolls, editorText, session>>
  /\ notice' = NoNotice
  /\ writerUnchanged

SessionShutdown_ClearsFile(r) ==
  /\ session[r] # "none"
  /\ fileWatcher' = [fileWatcher EXCEPT ![r] = FALSE]
  /\ activeWatchers' = [activeWatchers EXCEPT ![r] = IF fileWatcher[r] THEN @ - 1 ELSE @]
  /\ pollInterval' = [pollInterval EXCEPT ![r] = FALSE]
  /\ activePolls' = [activePolls EXCEPT ![r] = IF pollInterval[r] THEN @ - 1 ELSE @]
  /\ file' = IF fsFails THEN file ELSE Absent
  /\ session' = [session EXCEPT ![r] = "shutdown"]
  /\ thrown' = FALSE
  /\ op' = Op("SessionShutdown", r, ~fileWatcher[r] /\ ~pollInterval[r])
  /\ notice' = NoNotice
  /\ hist' = FileHist(hist, FALSE, <<>>)
  /\ UNCHANGED <<now, dirExists, currentSelection, lastCtx,
                 lastFileContent, status, editorText>>
  /\ writerUnchanged

SessionShutdown_ForgetsSelection(r) ==
  /\ session[r] # "none"
  /\ fileWatcher' = [fileWatcher EXCEPT ![r] = FALSE]
  /\ activeWatchers' = [activeWatchers EXCEPT ![r] = IF fileWatcher[r] THEN @ - 1 ELSE @]
  /\ pollInterval' = [pollInterval EXCEPT ![r] = FALSE]
  /\ activePolls' = [activePolls EXCEPT ![r] = IF pollInterval[r] THEN @ - 1 ELSE @]
  /\ currentSelection' = [currentSelection EXCEPT ![r] = <<>>]
  /\ lastFileContent' = [lastFileContent EXCEPT ![r] = Absent]
  /\ session' = [session EXCEPT ![r] = "shutdown"]
  /\ thrown' = FALSE
  /\ op' = Op("SessionShutdown", r, ~fileWatcher[r] /\ ~pollInterval[r])
  /\ notice' = NoNotice
  /\ UNCHANGED <<now, dirExists, file, lastCtx, status, editorText, hist>>
  /\ writerUnchanged

\* session_shutdown
SessionShutdown(r) ==
  /\ session[r] # "none"
  /\ IF fileWatcher[r]
     THEN /\ fileWatcher' = [fileWatcher EXCEPT ![r] = FALSE]
          /\ activeWatchers' = [activeWatchers EXCEPT ![r] = @ - 1]
     ELSE UNCHANGED <<fileWatcher, activeWatchers>>
  /\ IF pollInterval[r]
     THEN /\ pollInterval' = [pollInterval EXCEPT ![r] = FALSE]
          /\ activePolls' = [activePolls EXCEPT ![r] = @ - 1]
     ELSE UNCHANGED <<pollInterval, activePolls>>
  /\ session' = [session EXCEPT ![r] = "shutdown"]
  /\ thrown' = FALSE
  /\ op' = Op("SessionShutdown", r, ~fileWatcher[r] /\ ~pollInterval[r])
  /\ notice' = NoNotice
  /\ UNCHANGED <<now, dirExists, file, currentSelection, lastCtx,
                 lastFileContent, status, editorText, hist>>
  /\ writerUnchanged

\* a refresh from a trigger: the fs.watch listener or the interval
refresh(r, name) ==
  /\ LET c == checkForFileChanges(r, lastCtx[r])
     IN /\ applyCheck(r, c)
        /\ status' = [status EXCEPT ![r] = c.status]
        /\ hist' = RefreshHist(hist, r, c.changed)
  /\ thrown' = FALSE
  /\ op' = Op(name, r, FALSE)
  /\ UNCHANGED <<now, dirExists, file, lastCtx, fileWatcher,
                 pollInterval, activeWatchers, activePolls, editorText,
                 session>>
  /\ notice' = NoNotice
  /\ writerUnchanged

\* the listener given to fs.watch
WatchEvent(r) ==
  /\ activeWatchers[r] > 0
  /\ refresh(r, "WatchEvent")

\* setInterval(checkForFileChanges, 500)
PollTick(r) ==
  /\ activePolls[r] > 0
  /\ refresh(r, "PollTick")

\* the text the insert handlers hand to the host
insertText(sel) == formatSelectionForContext(sel) \o <<"\n">>

insert_ClearsEditor(r, name, warning) ==
  /\ LET cur == IF fsFails THEN <<>> ELSE readSelectionFile(file, now)
     IN /\ currentSelection' = [currentSelection EXCEPT ![r] = cur]
        /\ IF cur = <<>>
           THEN /\ notice' = [NoNotice EXCEPT ![r] = warning]
                /\ editorText' = [editorText EXCEPT ![r] = <<>>]
           ELSE /\ editorText' = [editorText EXCEPT ![r] = insertText(cur[1])]
                /\ notice' = NoNotice
  /\ thrown' = FALSE
  /\ op' = Op(name, r, FALSE)
  /\ UNCHANGED <<now, dirExists, file, lastCtx, fileWatcher,
                 pollInterval, lastFileContent, activeWatchers, activePolls,
                 status, session, hist>>
  /\ writerUnchanged

\* the handler of /ide (setEditorText) and of the shortcut (pasteToEditor)
insert(r, name, warning) ==
  /\ LET cur == IF fsFails THEN <<>> ELSE readSelectionFile(file, now)
     IN /\ currentSelection' = [currentSelection EXCEPT ![r] = cur]
        /\ IF cur = <<>>
           THEN /\ notice' = [NoNotice EXCEPT ![r] = warning]
                /\ UNCHANGED editorText
           ELSE /\ editorText' = [editorText EXCEPT ![r] = insertText(cur[1])]
                /\ notice' = NoNotice
  /\ thrown' = FALSE
  /\ op' = Op(name, r, FALSE)
  /\ UNCHANGED <<now, dirExists, file, lastCtx, fileWatcher,
                 pollInterval, lastFileContent, activeWatchers, activePolls,
                 status, session, hist>>
  /\ writerUnchanged

IdeCommand(r) == insert(r, "IdeCommand", "No IDE selection available")

IdeShortcut(r) == insert(r, "IdeShortcut", "No IDE selection")

\* writeSelectionFile(null): make ~/.pi, unlink the file if it exists; a
\* failure of either is caught
writeSelectionFileNull ==
  IF fsFails
  THEN UNCHANGED <<dirExists, file>>
  ELSE /\ dirExists' = TRUE
       /\ file' = Absent

\* the handler of /ide-clear
IdeClear(r) ==
  /\ writeSelectionFileNull
  /\ notice' = [NoNotice EXCEPT ![r] = "IDE selection cleared"]
  /\ hist' = FileHist(hist, FALSE, <<>>)
  /\ thrown' = FALSE
  /\ op' = Op("IdeClear", r, file.exists)
  /\ UNCHANGED <<now, currentSelection, lastCtx, fileWatcher,
                 pollInterval, lastFileContent, activeWatchers, activePolls,
                 status, editorText, session>>
  /\ writerUnchanged

-----------------------------------------------------------------------------
(* The writers as the readers see them: an editor's doSend, and
   src/test-selection.sh *)

\* doSend() of some VS Code window whose active editor is e
EditorCommit(e) ==
  /\ doSend(e)
  /\ hist' = FileHist(hist, e # <<>>, WrittenBy(e, now))
  /\ thrown' = FALSE
  /\ op' = Op("EditorCommit", "vscode", file' = file)
  /\ UNCHANGED now
  /\ readerUnchanged
  /\ writerUnchanged

NotJson == <<LBrace, Junk("not json")>>

ShellContents == {NotJson}

\* test-selection.sh: mkdir -p, then cat > file
ShellWrite(c) ==
  /\ dirExists' = TRUE
  /\ file' = Present(c)
  /\ hist' = FileHist(hist, TRUE, <<>>)
  /\ thrown' = FALSE
  /\ op' = Op("ShellWrite", "shell", file' = file)
  /\ UNCHANGED now
  /\ readerUnchanged
  /\ writerUnchanged

\* test-selection.sh clear: mkdir -p, then rm -f
ShellClear ==
  /\ dirExists' = TRUE
  /\ file' = Absent
  /\ hist' = FileHist(hist, FALSE, <<>>)
  /\ thrown' = FALSE
  /\ op' = Op("ShellClear", "shell", file.exists)
  /\ UNCHANGED now
  /\ readerUnchanged
  /\ writerUnchanged

-----------------------------------------------------------------------------

ReaderTicks == {MinuteMs, StalenessMs}
WriterTicks == {HalfWindowMs, DebounceMs}

\* the readers, with the file written by editors and by the shell script;
\* the host starts a session once per process, always in the same context
Next ==
  \/ \E d \in ReaderTicks : Tick(d, StartTime + MaxHours * StalenessMs)
  \/ \E e \in MaybeEditors : EditorCommit(e)
  \/ \E c \in ShellContents : ShellWrite(c)
  \/ ShellClear
  \/ \E r \in Readers, ctx \in {1} : session[r] = "none" /\ SessionStart(r, ctx)
  \/ \E r \in Readers, ctx \in {1} : SessionSwitch(r, ctx)
  \/ \E r \in Readers : SessionShutdown(r)
  \/ \E r \in Readers : WatchEvent(r)
  \/ \E r \in Readers : PollTick(r)
  \/ \E r \in Readers : IdeCommand(r)
  \/ \E r \in Readers : IdeShortcut(r)
  \/ \E r \in Readers : IdeClear(r)

Spec == Init /\ [][Next]_vars

\* the VS Code extension, with the other processes that delete the file
NextWriters ==
  \/ \E d \in WriterTicks : Tick(d, StartTime + MaxWindows * DebounceMs)
  \/ Activate
  \/ \E ed \in EditorStates : SelectionChanged(ed)
  \/ \E e \in MaybeEditors : ActiveEditorChanged(e)
  \/ \E tm \in timers : TimerFire(tm)
  \/ CmdSendSelection
  \/ CmdClearSelection
  \/ Deactivate
  \/ \E r \in Readers : IdeClear(r)
  \/ ShellClear

SpecWriters == InitWriters /\ [][NextWriters]_vars

-----------------------------------------------------------------------------
(* Faults: writes that are not atomic, contents no writer of this repository
   produces, file system calls that fail, host events in any order *)

\* write(fd, new) at offset 0 of a file that holds old
Overwrite(old, new) ==
  IF Len(old) > Len(new)
  THEN new \o SubSeq(old, Len(new) + 1, Len(old))
  ELSE new

\* valid JSON without the `file` field: JSON.parse returns it as it is
NoFileJson == <<LBrace, Key("ide"), JStr("shell"), RBrace>>

FaultContents == {NotJson, NoFileJson}

NoWriteOpen == \A w \in Writers : fd[w] = <<>>

othersUnchanged ==
  /\ notice' = NoNotice
  /\ thrown' = FALSE
  /\ UNCHANGED <<now, currentSelection, lastCtx, fileWatcher, pollInterval,
                 lastFileContent, activeWatchers, activePolls, status,
                 editorText, session, writerVars, chanVars>>

\* fs.writeFileSync of the editor window w, first half: ensureDir(), the data
\* is serialised, the file is opened with O_TRUNC
WriteOpen(w, ed) ==
  /\ fd[w] = <<>>
  /\ ~fsFails
  /\ dirExists' = TRUE
  /\ file' = Present(<<>>)
  /\ fd' = [fd EXCEPT ![w] = <<SelectionData(ed, now)>>]
  /\ hist' = FileHist(hist, FALSE, <<>>)
  /\ op' = Op("WriteOpen", w, FALSE)
  /\ UNCHANGED fsFails
  /\ othersUnchanged

\* fs.writeFileSync, second half: the text is written from offset 0
WriteFlush(w) ==
  /\ fd[w] # <<>>
  /\ file.exists
  /\ file' = Present(Overwrite(file.content, Stringify(fd[w][1], VSCodeKeys)))
  /\ fd' = [fd EXCEPT ![w] = <<>>]
  /\ hist' = FileHist(hist, TRUE, fd[w])
  /\ op' = Op("WriteFlush", w, FALSE)
  /\ UNCHANGED <<dirExists, fsFails>>
  /\ othersUnchanged

\* the file system starts or stops refusing mkdir, read, write and unlink
FsChange ==
  /\ fsFails' = ~fsFails
  /\ op' = Op("FsChange", "fs", FALSE)
  /\ UNCHANGED <<dirExists, file, fd, hist>>
  /\ othersUnchanged

\* a reader, with two editor windows whose writes interleave
NextRace ==
  \/ \E w \in Writers, ed \in EditorStates : WriteOpen(w, ed)
  \/ \E w \in Writers : WriteFlush(w)
  \/ NoWriteOpen /\ ShellClear
  \/ \E r \in Readers, ctx \in {1} : session[r] = "none" /\ SessionStart(r, ctx)
  \/ \E r \in Readers : WatchEvent(r)
  \/ \E r \in Readers : PollTick(r)
  \/ \E r \in Readers : IdeCommand(r)

SpecRace == Init /\ [][NextRace]_vars

\* the readers under faults; the host sends its events in any order
NextFaults ==
  \/ \E e \in MaybeEditors : EditorCommit(e)
  \/ \E c \in FaultContents : ~fsFails /\ ShellWrite(c)
  \/ FsChange
  \/ \E r \in Readers, ctx \in {1} : SessionStart(r, ctx)
  \/ \E r \in Readers, ctx \in {1} : SessionSwitch(r, ctx)
  \/ \E r \in Readers : SessionShutdown(r)
  \/ \E r \in Readers : WatchEvent(r)
  \/ \E r \in Readers : PollTick(r)
  \/ \E r \in Readers : IdeCommand(r)
  \/ \E r \in Readers : IdeShortcut(r)
  \/ \E r \in Readers : IdeClear(r)

SpecFaults == Init /\ [][NextFaults]_vars

\* the VS Code extension with file system calls that fail
NextWriterFaults ==
  \/ \E d \in WriterTicks : Tick(d, StartTime + MaxWindows * DebounceMs)
  \/ FsChange
  \/ Activate
  \/ \E ed \in EditorStates : SelectionChanged(ed)
  \/ \E e \in MaybeEditors : ActiveEditorChanged(e)
  \/ \E tm \in timers : TimerFire(tm)
  \/ CmdSendSelection
  \/ CmdClearSelection
  \/ Deactivate

SpecWriterFaults == InitWriters /\ [][NextWriterFaults]_vars

-----------------------------------------------------------------------------
(* Neovim writer: the lua plugin pide.nvim *)

\* what the plugin reads from Neovim: mode(), getpos("v"), getpos(".")
Vis(mode, v, cur) == [mode |-> mode, v |-> v, cur |-> cur]

\* normal mode, and visual selections made downwards, upwards, on one line
VisualStates ==
  { Vis("n", 1, 1), Vis("v", 1, 2), Vis("v", 2, 1), Vis("V", 2, 2) }

\* getpos("'<") and getpos("'>"): line 0 while no selection was ever made;
\* Neovim keeps '< at or before '>
Marks(lt, gt) == [lt |-> lt, gt |-> gt]

VisualMarks == { Marks(0, 0), Marks(1, 2), Marks(2, 2) }

\* expand("%:p"): "" for a buffer without a name
NvimFiles == {"", "/a/b.ts"}

\* table.concat(getline(s, e), "\n") in a buffer whose lines are "a" and "b"
GetLines(s, e) ==
  IF s > e THEN ""
  ELSE IF s = e THEN (IF s = 1 THEN "a" ELSE "b")
  ELSE "a\nb"

\* get_visual_selection(): nil (<<>>) outside visual mode; the lines are
\* put in order
get_visual_selection(vis) ==
  IF vis.mode \notin {"v", "V", "\\22"} THEN <<>>
  ELSE LET start_line == IF vis.v > vis.cur THEN vis.cur ELSE vis.v
           end_line == IF vis.v > vis.cur THEN vis.v ELSE vis.cur
       IN <<[text |-> GetLines(start_line, end_line),
             start_line |-> start_line, end_line |-> end_line]>>

\* get_last_visual_selection(): nil unless both marks are set
get_last_visual_selection(m) ==
  IF m.lt = 0 \/ m.gt = 0 THEN <<>>
  ELSE <<[text |-> GetLines(m.lt, m.gt), start_line |-> m.lt, end_line |-> m.gt]>>

\* os.time() * 1000: whole seconds
OsTimeMs(t) == (t \div 1000) * 1000

\* vim.fn.json_encode leaves the order of the keys open; the model takes one
NvimKeys == <<"file", "ide", "timestamp", "selection", "startLine", "endLine">>

\* the table do_send builds for the file f and the selection sel at time t
NvimData(f, sel, t) ==
  LET base == [file |-> JStr(f), ide |-> JStr("neovim"), timestamp |-> JNum(OsTimeMs(t))]
  IN IF sel # <<>>
     THEN [file |-> base.file, ide |-> base.ide, timestamp |-> base.timestamp,
           selection |-> JStr(sel[1].text),
           startLine |-> JNum(sel[1].start_line),
           endLine |-> JNum(sel[1].end_line)]
     ELSE base

\* M.clear_selection(): delete the file if it is readable, inside pcall
clear_selection ==
  /\ file' = IF fsFails THEN file ELSE Absent
  /\ UNCHANGED dirExists

\* do_send(): without a file name the file is deleted; else ensure_dir() and
\* writefile, whose failure is reported and goes no further
do_send(f, sel) ==
  IF f = ""
  THEN clear_selection
  ELSE IF fsFails
       THEN UNCHANGED <<dirExists, file>>
       ELSE /\ dirExists' = TRUE
            /\ file' = Present(Stringify(NvimData(f, sel, now), NvimKeys))

\* the selection do_send uses
NvimSelection(use_last_visual, vis, m) ==
  IF use_last_visual THEN get_last_visual_selection(m) ELSE get_visual_selection(vis)

\* send_selection(opts): the pending timer is stopped; an immediate call
\* runs do_send, another arms the timer.  debounce_timer is TRUE while the
\* timer is armed.
send_selection(immediate, use_last_visual, f, vis, m) ==
  IF immediate
  THEN /\ nvim' = [nvim EXCEPT !.debounce_timer = FALSE]
       /\ do_send(f, NvimSelection(use_last_visual, vis, m))
  ELSE /\ nvim' = [nvim EXCEPT !.debounce_timer = TRUE]
       /\ UNCHANGED <<dirExists, file>>

\* the options given to setup(): each one may be left out
NvimOpts ==
  [auto_send : {<<>>, <<TRUE>>, <<FALSE>>},
   clear_on_exit : {<<>>, <<TRUE>>, <<FALSE>>}]

\* vim.tbl_deep_extend("force", config, opts)
tbl_deep_extend(cfg, opts) ==
  [auto_send |-> IF opts.auto_send = <<>> THEN cfg.auto_send ELSE opts.auto_send[1],
   clear_on_exit |-> IF opts.clear_on_exit = <<>> THEN cfg.clear_on_exit
                     ELSE opts.clear_on_exit[1]]

\* the autocmds setup() creates: all of them inside `if config.auto_send`
setup_autocmds(cfg) ==
  IF cfg.auto_send
  THEN {"CursorMoved", "ModeChanged"}
         \cup (IF cfg.clear_on_exit THEN {"VimLeavePre"} ELSE {})
  ELSE {}

\* what the editor plugins leave alone
chanUnchanged ==
  /\ notice' = NoNotice
  /\ thrown' = FALSE
  /\ UNCHANGED <<now, fsVars, currentSelection, lastCtx, fileWatcher, pollInterval,
                 lastFileContent, activeWatchers, activePolls, status,
                 editorText, session, writerVars>>

\* the object do_send has just written, <<>> after a delete
NvimWritten(f, sel) == IF f = "" THEN <<>> ELSE <<NvimData(f, sel, now)>>

\* M.setup(opts)
NvimSetup(opts) ==
  /\ nvim.state = "none"
  /\ LET cfg == tbl_deep_extend(nvim.config, opts)
     IN nvim' = [nvim EXCEPT !.state = "running",
                             !.config = cfg,
                             !.autocmds = setup_autocmds(cfg),
                             !.deferred = cfg.auto_send]
  /\ op' = Op("NvimSetup", "nvim", FALSE)
  /\ UNCHANGED <<dirExists, file, jb, hist>>
  /\ chanUnchanged

\* CursorMoved, CursorMovedI, BufEnter, FocusGained
NvimCursorMoved ==
  /\ nvim.state = "running"
  /\ "CursorMoved" \in nvim.autocmds
  /\ send_selection(FALSE, FALSE, "", Vis("n", 1, 1), Marks(0, 0))
  /\ op' = Op("NvimCursorMoved", "nvim", FALSE)
  /\ UNCHANGED <<jb, hist>>
  /\ chanUnchanged

\* the debounce timer runs do_send
NvimTimerFire(f, vis) ==
  /\ nvim.state = "running"
  /\ nvim.debounce_timer
  /\ nvim' = [nvim EXCEPT !.debounce_timer = FALSE]
  /\ do_send(f, get_visual_selection(vis))
  /\ hist' = FileHist(hist, f # "", NvimWritten(f, get_visual_selection(vis)))
  /\ op' = Op("NvimTimerFire", "nvim", FALSE)
  /\ UNCHANGED jb
  /\ chanUnchanged

\* ModeChanged out of visual mode: the deferred call of send_selection
NvimModeChanged(f, m) ==
  /\ nvim.state = "running"
  /\ "ModeChanged" \in nvim.autocmds
  /\ send_selection(TRUE, TRUE, f, Vis("n", 1, 1), m)
  /\ hist' = FileHist(hist, f # "", NvimWritten(f, get_last_visual_selection(m)))
  /\ op' = Op("NvimModeChanged", "nvim", FALSE)
  /\ UNCHANGED jb
  /\ chanUnchanged

\* the initial send that setup() defers by 100 ms
NvimInitialSend(f, vis) ==
  /\ nvim.state = "running"
  /\ nvim.deferred
  /\ nvim' = [nvim EXCEPT !.deferred = FALSE, !.debounce_timer = FALSE]
  /\ do_send(f, get_visual_selection(vis))
  /\ hist' = FileHist(hist, f # "", NvimWritten(f, get_visual_selection(vis)))
  /\ op' = Op("NvimInitialSend", "nvim", FALSE)
  /\ UNCHANGED jb
  /\ chanUnchanged

\* :PideSend, M.send()
NvimSend(f, m) ==
  /\ nvim.state = "running"
  /\ send_selection(TRUE, TRUE, f, Vis("n", 1, 1), m)
  /\ hist' = FileHist(hist, f # "", NvimWritten(f, get_last_visual_selection(m)))
  /\ op' = Op("NvimSend", "nvim", FALSE)
  /\ UNCHANGED jb
  /\ chanUnchanged

\* :PideClear
NvimClear ==
  /\ nvim.state = "running"
  /\ clear_selection
  /\ hist' = FileHist(hist, FALSE, <<>>)
  /\ op' = Op("NvimClear", "nvim", file.exists)
  /\ UNCHANGED <<nvim, jb>>
  /\ chanUnchanged

\* Neovim exits: the VimLeavePre autocmd runs if there is one; the timers
\* end with the process
NvimExit ==
  /\ nvim.state = "running"
  /\ nvim' = [nvim EXCEPT !.state = "exited", !.debounce_timer = FALSE,
                          !.deferred = FALSE]
  /\ IF "VimLeavePre" \in nvim.autocmds
     THEN clear_selection
     ELSE UNCHANGED <<dirExists, file>>
  /\ hist' = FileHist(hist, FALSE, <<>>)
  /\ op' = Op("NvimExit", "nvim", file.exists)
  /\ UNCHANGED jb
  /\ chanUnchanged

-----------------------------------------------------------------------------
(* JetBrains writer: PiSelectionService and PiStartupActivity *)

\* A Kotlin String is a sequence of symbols: a symbol is one of the characters
\* that matter to JSON (quote, backslash, newline, carriage return, tab, form
\* feed) or a run of characters that do not.

\* the string the symbols spell
RECURSIVE Join(_)
Join(s) == IF s = <<>> THEN "" ELSE Head(s) \o Join(Tail(s))

\* s.replace(from, to) for a character from
RECURSIVE Replace(_, _, _)
Replace(s, from, to) ==
  IF s = <<>> THEN <<>>
  ELSE (IF Head(s) = from THEN to ELSE <<Head(s)>>) \o Replace(Tail(s), from, to)

\* escapeJson(s): the five replacements, in the order of the code
escapeJson(s) ==
  Replace(Replace(Replace(Replace(Replace(s,
    "\\", <<"\\", "\\">>),
    "\"", <<"\\", "\"">>),
    "\n", <<"\\", "n">>),
    "\r", <<"\\", "r">>),
    "\t", <<"\\", "t">>)

\* JSON.parse, RFC 8259: the characters U+0000..U+001F of the model, which
\* may not appear in a string literal unescaped
ControlChars == {"\n", "\r", "\t", "\f"}

\* the characters that may follow a backslash (b and uXXXX left out: no text
\* of the model has them after a backslash)
EscapeLetters == {"\"", "\\", "/", "n", "r", "t", "f"}

Unescape(c) ==
  CASE c = "n" -> "\n"
    [] c = "r" -> "\r"
    [] c = "t" -> "\t"
    [] c = "f" -> "\f"
    [] OTHER -> c

\* the symbols between two quotes are the inside of a JSON string literal
RECURSIVE ValidLiteral(_)
ValidLiteral(e) ==
  IF e = <<>> THEN TRUE
  ELSE IF Head(e) = "\\"
       THEN /\ Len(e) >= 2
            /\ e[2] \in EscapeLetters
            /\ ValidLiteral(Tail(Tail(e)))
       ELSE /\ Head(e) \notin ControlChars \cup {"\""}
            /\ ValidLiteral(Tail(e))

\* the string a valid literal denotes
RECURSIVE DecodeLiteral(_)
DecodeLiteral(e) ==
  IF e = <<>> THEN ""
  ELSE IF Head(e) = "\\"
       THEN Unescape(e[2]) \o DecodeLiteral(Tail(Tail(e)))
       ELSE Head(e) \o DecodeLiteral(Tail(e))

\* what JSON.parse makes of the literal "e": a string, or a syntax error
JsonString(e) ==
  IF ValidLiteral(e) THEN JStr(DecodeLiteral(e)) ELSE Junk(Join(e))

\* what the selection listener reads: the document's file (<<>> for null),
\* whether there is a selection, its text, its first and last line (0-based;
\* selectionStart is never after selectionEnd)
JbEd(f, has, text, start, end) ==
  [file |-> f, hasSelection |-> has, text |-> text, start |-> start, end |-> end]

JbEditors ==
  { JbEd(<<>>, FALSE, <<>>, 0, 0),
    JbEd(<<<<"/a/b.ts">>>>, FALSE, <<>>, 0, 0),
    JbEd(<<<<"/a/b.ts">>>>, TRUE, <<"x">>, 9, 14) }

\* the arguments selectionChanged gives to sendSelection; <<>> is null
JbArgs(ed) ==
  IF ed.hasSelection
  THEN [file |-> ed.file, selection |-> <<ed.text>>,
        startLine |-> <<ed.start + 1>>, endLine |-> <<ed.end + 1>>]
  ELSE [file |-> ed.file, selection |-> <<>>, startLine |-> <<>>, endLine |-> <<>>]

\* getIdeName() in IntelliJ IDEA
JbIdeName == "intellij"

\* the text buildString puts together for a file that is not null
JbJson(a, t) ==
  <<LBrace, Key("file"), JsonString(escapeJson(a.file[1])),
    Key("ide"), JStr(JbIdeName), Key("timestamp"), JNum(t)>>
  \o (IF a.selection # <<>> /\ a.selection[1] # <<>>
      THEN <<Key("selection"), JsonString(escapeJson(a.selection[1]))>>
           \o (IF a.startLine # <<>> THEN <<Key("startLine"), JNum(a.startLine[1])>> ELSE <<>>)
           \o (IF a.endLine # <<>> THEN <<Key("endLine"), JNum(a.endLine[1])>> ELSE <<>>)
      ELSE <<>>)
  \o <<RBrace>>

\* writeSelection(): delete for a null file, else writeText, which throws
\* when ~/.pi does not exist; every exception is ignored
writeSelection(a) ==
  /\ UNCHANGED dirExists
  /\ IF a.file = <<>>
     THEN file' = IF fsFails THEN file ELSE Absent
     ELSE IF fsFails \/ ~dirExists
          THEN UNCHANGED file
          ELSE file' = Present(JbJson(a, now))

\* the service is constructed (PiStartupActivity asks for it): init makes
\* ~/.pi; mkdirs() returns false when it cannot
JbStartup ==
  /\ jb.state = "none"
  /\ jb' = [jb EXCEPT !.state = "running"]
  /\ dirExists' = IF fsFails THEN dirExists ELSE TRUE
  /\ op' = Op("JbStartup", "jb", FALSE)
  /\ UNCHANGED <<file, nvim, hist>>
  /\ chanUnchanged

\* selectionChanged of the listener: sendSelection() cancels the scheduled
\* task and schedules one with the arguments of this call
JbSelectionChanged(ed) ==
  /\ jb.state = "running"
  /\ jb' = [jb EXCEPT !.debounceTimer = <<JbArgs(ed)>>]
  /\ op' = Op("JbSelectionChanged", "jb", FALSE)
  /\ UNCHANGED <<dirExists, file, nvim, hist>>
  /\ chanUnchanged

\* the scheduled task runs writeSelection
JbTimerFire ==
  /\ jb.state = "running"
  /\ jb.debounceTimer # <<>>
  /\ writeSelection(jb.debounceTimer[1])
  /\ jb' = [jb EXCEPT !.debounceTimer = <<>>]
  /\ LET a == jb.debounceTimer[1]
     IN hist' = FileHist(hist, a.file # <<>> /\ dirExists,
                         IF a.file # <<>> /\ WellFormed(JbJson(a, now))
                         THEN <<ParseObject(JbJson(a, now))>> ELSE <<>>)
  /\ op' = Op("JbTimerFire", "jb", dirExists)
  /\ UNCHANGED nvim
  /\ chanUnchanged

\* dispose(): the task and the timer are cancelled
JbDispose ==
  /\ jb.state = "running"
  /\ jb' = [jb EXCEPT !.state = "disposed", !.debounceTimer = <<>>]
  /\ op' = Op("JbDispose", "jb", FALSE)
  /\ UNCHANGED <<dirExists, file, nvim, hist>>
  /\ chanUnchanged

-----------------------------------------------------------------------------
(* src/test-selection.sh file <path> [start] [end] *)

\* the arguments start and end: <<>> when left out; end is the fourth
\* argument, so it is given only after a start
ShellRanges ==
  { [start |-> <<>>, end |-> <<>>],
    [start |-> <<1>>, end |-> <<>>],
    [start |-> <<1>>, end |-> <<2>>],
    [start |-> <<2>>, end |-> <<1>>] }

\* sed -n "s,ep" | jq -Rs . on a file whose lines are "a" and "b": sed
\* prints line s alone when e is before s
SedLines(s, e) ==
  IF e <= s THEN (IF s = 1 THEN "a\n" ELSE "b\n") ELSE "a\nb\n"

\* ${START:-null}
OrNull(x) == IF x = <<>> THEN JNull ELSE JNum(x[1])

\* $(date +%s)000
DateMs(t) == (t \div 1000) * 1000

\* the text of the here-document
ShellFileContent(p, rg, t) ==
  <<LBrace,
    Key("file"), JStr(p),
    Key("selection"), IF rg.start # <<>> /\ rg.end # <<>>
                      THEN JStr(SedLines(rg.start[1], rg.end[1])) ELSE JNull,
    Key("startLine"), OrNull(rg.start),
    Key("endLine"), OrNull(rg.end),
    Key("ide"), JStr("shell"),
    Key("timestamp"), JNum(DateMs(t)),
    RBrace>>

\* test-selection.sh file: mkdir -p, then cat > file
ShellFile(p, rg) ==
  /\ dirExists' = TRUE
  /\ file' = Present(ShellFileContent(p, rg, now))
  /\ hist' = FileHist(hist, TRUE, <<ParseObject(ShellFileContent(p, rg, now))>>)
  /\ thrown' = FALSE
  /\ op' = Op("ShellFile", "shell", FALSE)
  /\ UNCHANGED now
  /\ readerUnchanged
  /\ writerUnchanged

-----------------------------------------------------------------------------
(* The HTTP endpoint of the older extension (--ide-server) *)

\* httpServer is not null: with --ide-server, from session_start to
\* session_shutdown
httpServer(r) == session[r] = "started"

HttpKeys == <<"file", "selection", "startLine", "endLine", "ide", "timestamp">>

Obj1(k1, v1) == <<LBrace, Key(k1), v1, RBrace>>

\* request bodies: a file; a file with a selection; a start line without a
\* selection; lines in the wrong order; text that is not JSON
HttpBodies ==
  { Obj1("file", JStr("/a/b.ts")),
    <<LBrace, Key("file"), JStr("/a/b.ts"), Key("selection"), JStr("x"),
      Key("startLine"), JNum(3), Key("endLine"), JNum(5), RBrace>>,
    <<LBrace, Key("file"), JStr("/a/b.ts"), Key("startLine"), JNum(3), RBrace>>,
    <<LBrace, Key("file"), JStr("/a/b.ts"), Key("selection"), JStr("x"),
      Key("startLine"), JNum(5), Key("endLine"), JNum(2), RBrace>>,
    NotJson }

\* the IDESelection the POST handler builds from the parsed body at time t
HttpSelection(data, t) ==
  LET passed == DOMAIN data \cap {"selection", "startLine", "endLine", "ide"}
  IN [k \in {"file", "timestamp"} \cup passed |->
        CASE k = "file" -> IF Truthy(data, "file") THEN data["file"] ELSE JStr("")
          [] k = "timestamp" -> JNum(t)
          [] OTHER -> data[k]]

\* writeSelectionFile(selection): make ~/.pi, write the record or, for null,
\* unlink the file; a failure is caught
writeSelectionFile(sel, keys) ==
  IF fsFails
  THEN UNCHANGED <<dirExists, file>>
  ELSE /\ dirExists' = TRUE
       /\ file' = IF sel = <<>> THEN Absent ELSE Present(Stringify(sel[1], keys))

\* what a request handler leaves alone: all module state of the reader
httpUnchanged ==
  /\ thrown' = FALSE
  /\ UNCHANGED now
  /\ readerUnchanged
  /\ writerUnchanged

HttpPost_SetsCurrent(r, body) ==
  /\ httpServer(r)
  /\ IF WellFormed(body)
     THEN /\ writeSelectionFile(<<HttpSelection(ParseObject(body), now)>>, HttpKeys)
          /\ hist' = FileHist(hist, TRUE, <<HttpSelection(ParseObject(body), now)>>)
          /\ currentSelection' =
               [currentSelection EXCEPT ![r] = <<HttpSelection(ParseObject(body), now)>>]
     ELSE UNCHANGED <<dirExists, file, hist, currentSelection>>
  /\ op' = Op("HttpPost", r, WellFormed(body))
  /\ thrown' = FALSE
  /\ notice' = NoNotice
  /\ UNCHANGED <<now, lastCtx, fileWatcher, pollInterval, lastFileContent,
                 activeWatchers, activePolls, status, editorText, session>>
  /\ writerUnchanged

\* POST /selection: a body that does not parse is answered with 400
HttpPost(r, body) ==
  /\ httpServer(r)
  /\ IF WellFormed(body)
     THEN /\ writeSelectionFile(<<HttpSelection(ParseObject(body), now)>>, HttpKeys)
          /\ hist' = FileHist(hist, TRUE, <<HttpSelection(ParseObject(body), now)>>)
     ELSE UNCHANGED <<dirExists, file, hist>>
  /\ op' = Op("HttpPost", r, WellFormed(body))
  /\ httpUnchanged

\* DELETE /selection
HttpDelete(r) ==
  /\ httpServer(r)
  /\ writeSelectionFile(<<>>, HttpKeys)
  /\ hist' = FileHist(hist, FALSE, <<>>)
  /\ op' = Op("HttpDelete", r, file.exists)
  /\ httpUnchanged

-----------------------------------------------------------------------------
(* The directory is removed *)

\* rm -rf ~/.pi by the user or another program
RemoveDir ==
  /\ dirExists
  /\ dirExists' = FALSE
  /\ file' = Absent
  /\ hist' = FileHist(hist, FALSE, <<>>)
  /\ op' = Op("RemoveDir", "fs", file.exists)
  /\ UNCHANGED <<nvim, jb>>
  /\ chanUnchanged

\* the editor plugins and the shell script, with ~/.pi removed under them
NextChannels ==
  \/ \E opts \in NvimOpts : NvimSetup(opts)
  \/ NvimCursorMoved
  \/ \E f \in NvimFiles, vis \in VisualStates : NvimTimerFire(f, vis)
  \/ \E f \in NvimFiles, m \in VisualMarks : NvimModeChanged(f, m)
  \/ \E f \in NvimFiles, vis \in VisualStates : NvimInitialSend(f, vis)
  \/ \E f \in NvimFiles, m \in VisualMarks : NvimSend(f, m)
  \/ NvimClear
  \/ NvimExit
  \/ JbStartup
  \/ \E ed \in JbEditors : JbSelectionChanged(ed)
  \/ JbTimerFire
  \/ JbDispose
  \/ \E e \in MaybeEditors : EditorCommit(e)
  \/ \E rg \in ShellRanges : ShellFile("/a/b.ts", rg)
  \/ \E r \in Readers : IdeClear(r)
  \/ RemoveDir

SpecChannels == Init /\ [][NextChannels]_vars

\* a reader with the HTTP endpoint, and an editor that writes the file
NextHttp ==
  \/ \E r \in Readers, body \in HttpBodies : HttpPost(r, body)
  \/ \E r \in Readers : HttpDelete(r)
  \/ \E e \in MaybeEditors : EditorCommit(e)
  \/ \E r \in Readers, ctx \in {1} : session[r] = "none" /\ SessionStart(r, ctx)
  \/ \E r \in Readers : SessionShutdown(r)
  \/ \E r \in Readers : WatchEvent(r)
  \/ \E r \in Readers : PollTick(r)
  \/ \E r \in Readers : IdeCommand(r)

SpecHttp == Init /\ [][NextHttp]_vars

-----------------------------------------------------------------------------
(* readSelectionFile as a function of the record's timestamp and the clock:
   the file holds a record some tool wrote, with or without a timestamp *)

\* the clock readings
StalenessNows == {StartTime + d : d \in 0..MaxSkew}

\* the timestamps: the epoch and the instants around it, the instants around
\* one hour before the start, the start and the instants after it
StalenessTimestamps ==
  {d : d \in (0 - MaxSkew)..MaxSkew}
    \cup {StartTime - StalenessMs + d : d \in (0 - MaxSkew)..MaxSkew}
    \cup {StartTime + d : d \in 0..(MaxSkew + 1)}

StampedKeys == <<"file", "ide", "timestamp">>

\* a record of /a/b.ts with the timestamp ts, or with none when ts is <<>>
Stamped(ts) ==
  IF ts = <<>>
  THEN [k \in {"file", "ide"} |->
          IF k = "file" THEN JStr("/a/b.ts") ELSE JStr("shell")]
  ELSE [k \in {"file", "ide", "timestamp"} |->
          IF k = "file" THEN JStr("/a/b.ts")
          ELSE IF k = "ide" THEN JStr("shell") ELSE JNum(ts[1])]

InitStaleness ==
  /\ now \in StalenessNows
  /\ dirExists = TRUE
  /\ \E ts \in {<<>>} \cup {<<t>> : t \in StalenessTimestamps} :
       file = Present(Stringify(Stamped(ts), StampedKeys))
  /\ fsFails = FALSE
  /\ fd = [w \in Writers |-> <<>>]
  /\ currentSelection = [r \in Readers |-> <<>>]
  /\ lastCtx = [r \in Readers |-> 0]
  /\ fileWatcher = [r \in Readers |-> FALSE]
  /\ pollInterval = [r \in Readers |-> FALSE]
  /\ lastFileContent = [r \in Readers |-> Absent]
  /\ activeWatchers = [r \in Readers |-> 0]
  /\ activePolls = [r \in Readers |-> 0]
  /\ status = [r \in Readers |-> [c \in Ctxs |-> <<>>]]
  /\ editorText = [r \in Readers |-> <<>>]
  /\ notice = NoNotice
  /\ thrown = FALSE
  /\ vscode = "inactive"
  /\ autoSend = TRUE
  /\ editor = <<>>
  /\ debounceTimer = 0
  /\ timers = {}
  /\ nvim = NvimInit
  /\ jb = JbInit
  /\ session = [r \in Readers |-> "none"]
  /\ op = Op("init", "", FALSE)
  /\ hist = InitHist

\* the operations of a reader that call readSelectionFile
NextStaleness ==
  \/ \E r \in Readers, ctx \in {1} : session[r] = "none" /\ SessionStart(r, ctx)
  \/ \E r \in Readers : PollTick(r)
  \/ \E r \in Readers : IdeCommand(r)
  \/ \E r \in Readers : IdeShortcut(r)
  \/ \E r \in Readers : SessionShutdown(r)

SpecStaleness == InitStaleness /\ [][NextStaleness]_vars

-----------------------------------------------------------------------------
(* A reader with test-selection.sh as the only writer *)

\* realpath "$2" of the paths given to the script
ShellPaths == {"/a/b.ts", "/p/x.py"}

NextShell ==
  \/ \E p \in ShellPaths, rg \in ShellRanges : ShellFile(p, rg)
  \/ ShellClear
  \/ \E r \in Readers, ctx \in {1} : session[r] = "none" /\ SessionStart(r, ctx)
  \/ \E r \in Readers : PollTick(r)
  \/ \E r \in Readers : IdeCommand(r)
  \/ \E r \in Readers : IdeShortcut(r)
  \/ \E r \in Readers : SessionShutdown(r)

SpecShell == Init /\ [][NextShell]_vars

-----------------------------------------------------------------------------
(* writeSelection as a function of the file's path and the selected text,
   with a reader that parses what it wrote *)

\* the characters of a selected text: the five escapeJson replaces, a control
\* character it does not replace (form feed), and two plain letters
JbChars == {"x", "n", "\"", "\\", "\n", "\r", "\t", "\f"}

RECURSIVE TextsOfLen(_)
TextsOfLen(n) ==
  IF n = 0 THEN {<<>>}
  ELSE {<<c>> \o t : c \in JbChars, t \in TextsOfLen(n - 1)}

\* the selected texts: one to MaxText characters
JbTexts == UNION {TextsOfLen(n) : n \in 1..MaxText}

\* VirtualFile.path: a plain path, and file names with a quote and with a
\* backslash
JbPaths == {<<"/a/b.ts">>, <<"/a/", "\"", ".ts">>, <<"/a/", "\\", ".ts">>}

\* the service is constructed (~/.pi exists) and the listener has scheduled
\* the write of a selection of some text in some file
InitJb ==
  /\ now = StartTime
  /\ dirExists = TRUE
  /\ file = Absent
  /\ fsFails = FALSE
  /\ fd = [w \in Writers |-> <<>>]
  /\ currentSelection = [r \in Readers |-> <<>>]
  /\ lastCtx = [r \in Readers |-> 0]
  /\ fileWatcher = [r \in Readers |-> FALSE]
  /\ pollInterval = [r \in Readers |-> FALSE]
  /\ lastFileContent = [r \in Readers |-> Absent]
  /\ activeWatchers = [r \in Readers |-> 0]
  /\ activePolls = [r \in Readers |-> 0]
  /\ status = [r \in Readers |-> [c \in Ctxs |-> <<>>]]
  /\ editorText = [r \in Readers |-> <<>>]
  /\ notice = NoNotice
  /\ thrown = FALSE
  /\ vscode = "inactive"
  /\ autoSend = TRUE
  /\ editor = <<>>
  /\ debounceTimer = 0
  /\ timers = {}
  /\ nvim = NvimInit
  /\ session = [r \in Readers |-> "none"]
  /\ op = Op("init", "", FALSE)
  /\ hist = InitHist
  /\ \E f \in JbPaths, text \in JbTexts :
       jb = [state |-> "running",
             debounceTimer |-> <<JbArgs(JbEd(<<f>>, TRUE, text, 0, 0))>>]

NextJb ==
  \/ JbTimerFire
  \/ JbDispose
  \/ \E r \in Readers, ctx \in {1} : session[r] = "none" /\ SessionStart(r, ctx)
  \/ \E r \in Readers : PollTick(r)
  \/ \E r \in Readers : IdeCommand(r)
  \/ \E r \in Readers : IdeShortcut(r)

SpecJb == InitJb /\ [][NextJb]_vars

-----------------------------------------------------------------------------
(* Properties *)

RefreshOps == {"WatchEvent", "PollTick"}
InsertOps == {"IdeCommand", "IdeShortcut"}
ClearOps == {"CmdClearSelection", "IdeClear"}

\* what a commit of the editor state st at time t leaves in the file
CommitOf(st, t) ==
  IF st = <<>> THEN Absent ELSE Present(VSCodeContent(st[1], t))

\* C1: a burst of debounced sendSelection() calls, each made before the
\* timer of the previous one was due, never has two timers armed, commits
\* nothing while its timer is armed, and once the timer has fired has
\* committed exactly once: the state of the editor at the last call.
DebounceCoalescing ==
  (hist.calls >= 1 /\ hist.inWindow) =>
    /\ Cardinality(timers) <= 1
    /\ timers # {} => hist.commits = 0
    /\ timers = {} =>
         /\ hist.commits = 1
         /\ hist.committed = CommitOf(hist.lastState, hist.firedAt)

DebounceCoalescingWitness ==
  /\ op.name = "TimerFire"
  /\ hist.calls >= 2
  /\ hist.inWindow
  /\ timers = {}
  /\ hist.commits = 1
  /\ file.exists
  /\ file = CommitOf(hist.lastState, now)

\* C2 (as claimed): a refresh that finds unparsable content leaves the held
\* current value as it was and throws nothing.
MalformedResilience ==
  [][(op'.name \in RefreshOps /\ file.exists /\ ~WellFormed(file.content))
       => (currentSelection' = currentSelection /\ ~thrown')]_vars

\* the timestamp of the object the last write serialised
WrittenAt == hist.written[1]["timestamp"].n

\* C3: an insert handler reads a written record that is two hours old as
\* null, and one that is a minute old as the object that was written.
StalenessFilterReadBack ==
  (op.name \in InsertOps /\ hist.written # <<>>) =>
    /\ now - WrittenAt = 2 * StalenessMs => currentSelection[op.who] = <<>>
    /\ now - WrittenAt = MinuteMs => currentSelection[op.who] = hist.written

StalenessFilterReadBackWitness ==
  /\ op.name \in InsertOps
  /\ hist.written # <<>>
  /\ now - WrittenAt = MinuteMs
  /\ "selection" \in DOMAIN hist.written[1]
  /\ currentSelection[op.who] = hist.written

\* C4 (as claimed): the value a reader holds after a poll is never a record
\* whose timestamp is more than an hour old.
StalenessOverTime ==
  \A r \in Readers :
    (op.name = "PollTick" /\ op.who = r /\ currentSelection[r] # <<>>
       /\ "timestamp" \in DOMAIN currentSelection[r][1])
      => now - currentSelection[r][1]["timestamp"].n <= StalenessMs

ClaimedSuffix(sel) ==
  IF "startLine" \in DOMAIN sel /\ "endLine" \in DOMAIN sel
  THEN IF sel["startLine"].n = sel["endLine"].n
       THEN <<":", ToString(sel["startLine"].n)>>
       ELSE <<":", ToString(sel["startLine"].n), "-", ToString(sel["endLine"].n)>>
  ELSE <<>>

ClaimedReference(sel) == <<sel["file"].s>> \o ClaimedSuffix(sel)

Inserted == op.name \in InsertOps /\ currentSelection[op.who] # <<>>

DeleteOnFocusLoss ==
  (op.name = "ActiveEditorChanged" /\ editor = <<>> /\ autoSend)
    => (timers = {} /\ ~file.exists)

\* C7 (amended): handling the loss of the active editor leaves the file as
\* it is and leaves exactly one timer armed, due a debounce window later;
\* when a timer fires while no editor is active the file does not exist
\* afterwards.
FocusLossDebouncedDelete ==
  [][/\ (op'.name = "ActiveEditorChanged" /\ editor' = <<>> /\ autoSend)
          => /\ UNCHANGED <<dirExists, file>>
             /\ timers' = {[id |-> debounceTimer', due |-> now + DebounceMs]}
     /\ (op'.name = "TimerFire" /\ editor = <<>>) => ~file'.exists]_vars

FocusLossDebouncedDeleteWitness ==
  /\ op.name = "TimerFire"
  /\ op.flag
  /\ editor = <<>>
  /\ hist.calls >= 1
  /\ ~file.exists

\* C8: a clear leaves the file absent and throws nothing, also when the file
\* was absent already; the same clear run again changes nothing.
IdempotentClear ==
  [][op'.name \in ClearOps =>
       /\ file' = Absent
       /\ ~thrown'
       /\ op.name = op'.name => UNCHANGED <<dirExists, file>>]_vars

IdempotentClearWitness ==
  /\ op.name \in ClearOps
  /\ ~op.flag
  /\ file = Absent
  /\ ~thrown

\* the record the last write serialised is at most an hour old
WrittenFresh == hist.written # <<>> /\ now - WrittenAt <= StalenessMs

EventualConsistency ==
  op.name = "PollTick" => currentSelection[op.who] = readSelectionFile(file, now)

\* the text is the complete serialisation of a record
IsSerialisation(c) ==
  /\ WellFormed(c)
  /\ "file" \in DOMAIN ParseObject(c)
  /\ Stringify(ParseObject(c), VSCodeKeys) = c

\* C11 (as claimed): the content a reader has read is absent or the
\* complete serialisation of a record, never an empty or truncated text.
NoPartialWrites ==
  \A r \in Readers :
    lastFileContent[r].exists => IsSerialisation(lastFileContent[r].content)

\* C12 (as claimed): once session_shutdown has run, whatever starts,
\* switches and stops came before, the reader has no watcher and no
\* interval installed.
StopEndsRefreshing ==
  op.name = "SessionShutdown" =>
    (activeWatchers[op.who] = 0 /\ activePolls[op.who] = 0)

\* what the reader's code holds
readerState ==
  <<currentSelection, lastCtx, fileWatcher, pollInterval, lastFileContent,
    activeWatchers, activePolls, status, editorText>>

\* C13: session_shutdown of a reader that holds no watcher and no interval
\* changes nothing of the reader and throws nothing.
StopIdempotent ==
  [][(op'.name = "SessionShutdown" /\ op'.flag)
       => (UNCHANGED readerState /\ ~thrown')]_vars

StopIdempotentWitness ==
  /\ op.name = "SessionShutdown"
  /\ op.flag
  /\ session[op.who] = "shutdown"
  /\ currentSelection[op.who] # <<>>
  /\ lastFileContent[op.who].exists
  /\ ~thrown

\* C14: a session_start made while the file does not exist throws nothing,
\* installs no watcher and installs the interval; a poll tick of a reader
\* without a watcher that has seen no file yet surfaces the fresh record
\* that was committed since.
WatchFailureNonFatal ==
  [][/\ (op'.name = "SessionStart" /\ ~file.exists)
          => /\ ~thrown'
             /\ pollInterval'[op'.who]
             /\ activePolls'[op'.who] = activePolls[op'.who] + 1
             /\ UNCHANGED <<fileWatcher, activeWatchers>>
     /\ (/\ op'.name = "PollTick"
         /\ activeWatchers[op'.who] = 0
         /\ lastFileContent[op'.who] = Absent
         /\ file.exists
         /\ WrittenFresh)
          => currentSelection'[op'.who] = hist.written]_vars

WatchFailureNonFatalWitness ==
  /\ op.name = "PollTick"
  /\ session[op.who] = "started"
  /\ activeWatchers[op.who] = 0
  /\ ~fileWatcher[op.who]
  /\ hist.updates[op.who] = 1
  /\ WrittenFresh
  /\ currentSelection[op.who] = hist.written

\* the file holds valid JSON without the `file` field
LacksFile ==
  /\ file.exists
  /\ WellFormed(file.content)
  /\ "file" \notin DOMAIN ParseObject(file.content)

\* C15 (as claimed): a refresh that finds valid JSON without the `file`
\* field throws nothing and leaves the held current value as it was.
MissingFieldResilience ==
  [][(op'.name \in RefreshOps /\ LacksFile)
       => (currentSelection' = currentSelection /\ ~thrown')]_vars

\* the reader's handlers that the claim of C16 names
HostOps == {"SessionStart", "SessionSwitch"} \cup RefreshOps \cup InsertOps

\* C16 (as claimed): whatever the file holds and whichever file system
\* calls fail, the reader's start, refresh, switch and insert handlers let
\* no exception escape to the host.
NoFatalReaderError ==
  op.name \in HostOps => ~thrown

CommitOps == {"Activate", "CmdSendSelection", "TimerFire"}

LastWriteWins ==
  NoWriteOpen =>
    IF hist.written = <<>>
    THEN ~file.exists
    ELSE file = Present(Stringify(hist.written[1], VSCodeKeys))

\* C19: no handler of a reader other than /ide-clear changes the file.
ReadersDoNotMutate ==
  [][(op'.who \in Readers /\ op'.name # "IdeClear") => UNCHANGED file]_vars

ReadersDoNotMutateWitness ==
  /\ op.who \in Readers
  /\ op.name = "SessionShutdown"
  /\ ~op.flag
  /\ file.exists
  /\ lastFileContent[op.who] = file
  /\ editorText[op.who] # <<>>

HasValue(obj, k) == k \in DOMAIN obj /\ obj[k].t # "null"

\* the file holds a record
HoldsRecord == file.exists /\ WellFormed(file.content)

FileRecord == ParseObject(file.content)

\* C21 (as claimed): in every record in the file, startLine and endLine are
\* both present exactly when selection is present, and neither is present
\* without the other.
BothOrNeither ==
  HoldsRecord =>
    /\ HasValue(FileRecord, "startLine") <=> HasValue(FileRecord, "endLine")
    /\ HasValue(FileRecord, "selection") <=> HasValue(FileRecord, "startLine")

\* C22 (as claimed): in every record in the file that has both startLine and
\* endLine, endLine is not less than startLine.
LineOrder ==
  (HoldsRecord /\ HasValue(FileRecord, "startLine") /\ HasValue(FileRecord, "endLine"))
    => ToNumber(FileRecord["endLine"]) >= ToNumber(FileRecord["startLine"])

\* the steps in which an editor plugin, the shell script or the HTTP
\* endpoint writes a record
RecordOps ==
  {"EditorCommit", "NvimTimerFire", "NvimModeChanged", "NvimInitialSend",
   "NvimSend", "ShellFile", "HttpPost"}

\* C23 (as claimed): a commit of a record, made while the file system works,
\* leaves ~/.pi in place and the record in the file, whether or not ~/.pi
\* existed when the commit began.
ParentDirBeforeWrite ==
  [][/\ (op'.name = "JbTimerFire" /\ jb.debounceTimer[1].file # <<>> /\ ~fsFails)
          => (dirExists' /\ file' = Present(JbJson(jb.debounceTimer[1], now)))
     /\ (op'.name \in RecordOps /\ hist'.written # <<>> /\ ~fsFails)
          => (dirExists' /\ HoldsRecord' /\ FileRecord' = hist'.written[1])]_vars

\* C24 (as claimed): a refresh that finds the file deleted sets the held
\* value to null and clears the status; a refresh that finds a body that
\* does not parse does not do the same: a held record is still held.
AbsenceDistinguished ==
  [][op'.name \in RefreshOps =>
       LET r == op'.who
       IN /\ (~file.exists /\ lastFileContent[r].exists)
               => /\ currentSelection'[r] = <<>>
                  /\ lastCtx[r] # 0 => status'[r][lastCtx[r]] = <<>>
          /\ (file.exists /\ ~WellFormed(file.content) /\ currentSelection[r] # <<>>)
               => currentSelection'[r] # <<>>]_vars

\* C25 (as claimed): /ide-clear deletes the file and writes nothing, and the
\* refresh a reader makes next after it leaves that reader holding no value.
ReaderClear ==
  [][/\ op'.name = "IdeClear" => file' = Absent
     /\ (op.name = "IdeClear" /\ op'.name \in RefreshOps)
          => currentSelection'[op'.who] = <<>>]_vars

HttpOps == {"HttpPost", "HttpDelete"}

\* the handlers of the reader that read the file
ReadingOps == {"SessionStart", "SessionSwitch", "WatchEvent", "PollTick",
               "IdeCommand", "IdeShortcut"}

\* C26: a POST or DELETE on /selection writes or deletes the file and leaves
\* the reader's held value, last-seen content and status as they were; the
\* held value changes only in a handler that reads the file, to what the
\* file then decodes to.
HttpFunnels ==
  [][/\ op'.name \in HttpOps =>
          /\ currentSelection' = currentSelection
          /\ lastFileContent' = lastFileContent
          /\ status' = status
          /\ op'.name = "HttpDelete" => file' = Absent
          /\ (op'.name = "HttpPost" /\ op'.flag)
               => file' = Present(Stringify(hist'.written[1], HttpKeys))
          /\ (op'.name = "HttpPost" /\ ~op'.flag) => file' = file
     /\ \A r \in Readers :
          currentSelection'[r] # currentSelection[r] =>
            /\ op'.name \in ReadingOps
            /\ op'.who = r
            /\ currentSelection'[r] = readSelectionFile(file, now)]_vars

HttpFunnelsWitness ==
  /\ op.name = "HttpPost"
  /\ op.flag
  /\ file.exists
  /\ currentSelection[op.who] # <<>>
  /\ currentSelection[op.who] # readSelectionFile(file, now)
  /\ lastFileContent[op.who] # file

\* C27 (as claimed): when Neovim exits with clear_on_exit = true and the
\* file system works, the file does not exist afterwards, whatever auto_send
\* is.
ClearOnExit ==
  [][(op'.name = "NvimExit" /\ nvim.config.clear_on_exit /\ ~fsFails)
       => ~file'.exists]_vars

EditorEvents == {"SelectionChanged", "ActiveEditorChanged"}

\* C28: with pide.autoSend = false, activation and the editor events leave
\* the file as it is and arm no timer, and the file changes only in the
\* send and clear commands (or in another process); with autoSend = true
\* every editor event arms the debounce timer for 100 ms later, and
\* activation commits the editor's state at once.
AutoSendGate ==
  [][/\ (~autoSend /\ op'.name \in EditorEvents \cup {"Activate"})
          => (file' = file /\ timers' = {} /\ debounceTimer' = 0)
     /\ (~autoSend /\ file' # file)
          => op'.name \in {"CmdSendSelection", "CmdClearSelection", "IdeClear", "ShellClear"}
     /\ (autoSend /\ op'.name \in EditorEvents)
          => /\ debounceTimer' # 0
             /\ [id |-> debounceTimer', due |-> now + DebounceMs] \in timers'
     /\ (autoSend /\ op'.name = "Activate")
          => file' = CommitOf(editor, now)]_vars

AutoSendGateWitness ==
  /\ ~autoSend
  /\ op.name \in EditorEvents
  /\ editor # <<>>
  /\ file.exists
  /\ hist.written # <<>>
  /\ hist.written[1] # SelectionData(editor[1], WrittenAt)

\* the file holds a record whose timestamp is more than an hour before now
HoldsOldRecord ==
  /\ HoldsRecord
  /\ Defined(FileRecord, "timestamp")
  /\ FileRecord["timestamp"].t = "num"
  /\ FileRecord["timestamp"].n # 0
  /\ now - FileRecord["timestamp"].n > StalenessMs

\* the warning of each insert handler
InsertWarning(name) ==
  IF name = "IdeCommand" THEN "No IDE selection available" ELSE "No IDE selection"

Decode(f) == IF f.exists /\ WellFormed(f.content) THEN <<ParseObject(f.content)>> ELSE <<>>

\* C30 (as claimed): the held value of a reader whose session has started is
\* the decoding of the content it recorded as last seen, filtered by
\* staleness when it was read or now.
HeldMatchesLastSeen ==
  \A r \in Readers :
    session[r] = "started" =>
      \/ currentSelection[r] = readSelectionFile(lastFileContent[r], now)
      \/ currentSelection[r] = Decode(lastFileContent[r])

\* the status updateStatus would set for the held value cur
StatusOf(cur) == IF cur = <<>> THEN <<>> ELSE <<StatusText(cur[1])>>

\* C31 (as claimed): when a start, refresh, session switch or insert handler
\* of a reader has completed, the status on the reader's current context is
\* the one of the held value: none when it is null, that record's otherwise.
DisplayAgrees ==
  (op.name \in ReadingOps /\ lastCtx[op.who] # 0 /\ HasUI(lastCtx[op.who]))
    => status[op.who][lastCtx[op.who]] = StatusOf(currentSelection[op.who])

\* C32 (as claimed): whatever session_start and session_shutdown events a
\* reader has received, at most one poll timer and at most one watcher that it
\* created are active, and each active one is the one its state refers to.
SingleTimer ==
  \A r \in Readers :
    /\ activePolls[r] = (IF pollInterval[r] THEN 1 ELSE 0)
    /\ activeWatchers[r] = (IF fileWatcher[r] THEN 1 ELSE 0)

\* C33 (as claimed): an insert handler that reads a well-formed record reads
\* null exactly when the record's timestamp t has now - t > 3600000, and also
\* when the timestamp is 0 or the record has no timestamp field; a record
\* exactly 3600000 ms old is read as present.
StalenessBoundary ==
  (op.name \in InsertOps /\ HoldsRecord) =>
    (currentSelection[op.who] = <<>>
       <=> \/ "timestamp" \notin DOMAIN FileRecord
           \/ now - FileRecord["timestamp"].n > StalenessMs)

\* C34 (as claimed): once pide.clearSelection has deleted the file, the file
\* stays absent until the editor's state changes again: the step that follows
\* the clear, unless it is the send command, does not create the file; in
\* particular a debounce timer armed before the clear does not.
ClearStaysCleared ==
  [][(op.name = "CmdClearSelection" /\ op.flag /\ ~file.exists
        /\ op'.name # "CmdSendSelection") => ~file'.exists]_vars

\* C35: deactivate() leaves ~/.pi and the file as they are and leaves no
\* timer armed, and after it the extension takes no step: no doSend runs.
DeactivateCancels ==
  [][/\ op'.name = "Deactivate" =>
          (file' = file /\ dirExists' = dirExists /\ timers' = {})
     /\ vscode = "deactivated" => op'.who # "vscode"]_vars

\* deactivate() ran while a debounce timer was armed and the file held a record
DeactivateCancelsWitness ==
  /\ op.name = "Deactivate"
  /\ op.flag
  /\ file.exists
  /\ timers = {}

\* the record has startLine and endLine, and both are null
NullLines(sel) ==
  /\ Defined(sel, "startLine") /\ sel["startLine"] = JNull
  /\ Defined(sel, "endLine") /\ sel["endLine"] = JNull

\* C36 (as claimed): when an insert handler has read a record whose startLine
\* and endLine are null, the text it inserts is the reference to the file
\* path with no line suffix, and the line count of the record is the one of a
\* record without a line range.
NullLineFields ==
  \A r \in Readers :
    (op.name \in InsertOps /\ op.who = r /\ currentSelection[r] # <<>>
       /\ NullLines(currentSelection[r][1])) =>
      /\ editorText[r] =
           <<"Referencing ", currentSelection[r][1]["file"].s, "\n">>
      /\ getLineCount(currentSelection[r][1]) =
           (IF Truthy(currentSelection[r][1], "selection")
            THEN SplitLines(currentSelection[r][1]["selection"].s) ELSE 0)

\* C37 (as claimed): whatever the path and the selected text, the content
\* writeSelection writes parses as JSON, and the file and selection of the
\* parsed object are the path and the text it was given.
JbRoundTrip ==
  [][(op'.name = "JbTimerFire" /\ jb.debounceTimer[1].file # <<>>
        /\ jb.debounceTimer[1].selection # <<>>
        /\ jb.debounceTimer[1].selection[1] # <<>>
        /\ dirExists /\ ~fsFails)
       => /\ file'.exists
          /\ WellFormed(file'.content)
          /\ ParseObject(file'.content)["file"] =
               JStr(Join(jb.debounceTimer[1].file[1]))
          /\ ParseObject(file'.content)["selection"] =
               JStr(Join(jb.debounceTimer[1].selection[1]))]_vars

====
